---- MODULE Spec2Model ----
(***************************************************************************)
(* State-machine model of app.py: the "Generate Report" button handler,   *)
(* the agent call inside generate_report, and the line-by-line conversion *)
(* of the agent's text into a sequence of heading / paragraph blocks.     *)
(*                                                                         *)
(* Strings are sequences of one-character strings, so that str.strip,     *)
(* str.splitlines, str.startswith and str.replace are modelled by what    *)
(* they do to the characters.  A character that a TLA+ string cannot     *)
(* hold is written as the single element "U+" followed by its code point  *)
(* in four hexadecimal digits: "U+00B7" is the middle dot of the          *)
(* generation note, "U+00A0" the no-break space.  The emoji of the        *)
(* notices and of the button label are left out of the notice strings.    *)
(***************************************************************************)
EXTENDS Integers, Sequences, FiniteSets, TLC

(* selected_state  the selectbox's value (app.py:133)                      *)
(* pc              where the script run is: "idle" (button not pressed),   *)
(*                 "calling" (agent.run in flight, :52), "formatting" (the *)
(*                 loop, :61-86), "done" (:146), "stopped" (st.stop, :55)  *)
(* outcome         how agent.run ended: "none", "returned", "raised"       *)
(* report_text     the agent's answer (:52)                                *)
(* lines           the lines the loop has still to take (:61)              *)
(* doc             the blocks added to the document so far (:58-89)        *)
(* page            the notices and the button the run has shown            *)
(* today, ticks    the clock's date (:89) and the days it has advanced     *)
(* triggers        presses of the button (:136)                            *)
(* agentCalls      calls of agent.run (:52)                                *)
VARIABLES selected_state, pc, outcome, report_text, lines, doc, page,
          today, ticks, triggers, agentCalls

vars == <<selected_state, pc, outcome, report_text, lines, doc, page,
          today, ticks, triggers, agentCalls>>

----------------------------------------------------------------------------
(* Bounds of the model *)

\* the agent's answer is a concatenation of at most MaxPieces fragments
MaxPieces == 2
\* the user picks among the first NStates entries of indian_states
NStates == 2
\* the clock advances at most MaxTicks days
MaxTicks == 1
\* the user presses the button at most MaxTriggers times
MaxTriggers == 2
\* under LiveSpec the agent's answer has at most MaxLivePieces fragments
MaxLivePieces == 1

----------------------------------------------------------------------------
(* Python string methods *)

\* the 29 characters str.strip() removes: \t \n \v \f \r, U+001C to U+001F,
\* the space, U+0085, U+00A0, U+1680, U+2000 to U+200A, U+2028, U+2029,
\* U+202F, U+205F and U+3000
Whitespace ==
    {"\t", "\n", "U+000B", "\f", "\r",
     "U+001C", "U+001D", "U+001E", "U+001F", " ",
     "U+0085", "U+00A0", "U+1680",
     "U+2000", "U+2001", "U+2002", "U+2003", "U+2004", "U+2005",
     "U+2006", "U+2007", "U+2008", "U+2009", "U+200A",
     "U+2028", "U+2029", "U+202F", "U+205F", "U+3000"}

\* the 10 line boundaries of str.splitlines(): \n \r \v \f, U+001C to
\* U+001E, U+0085, U+2028 and U+2029 ("\r\n" is handled in SplitLines)
LineBreaks ==
    {"\n", "\r", "U+000B", "\f", "U+001C", "U+001D", "U+001E",
     "U+0085", "U+2028", "U+2029"}

RECURSIVE LStrip(_)
LStrip(s) ==
    IF s # <<>> /\ Head(s) \in Whitespace THEN LStrip(Tail(s)) ELSE s

RECURSIVE RStrip(_)
RStrip(s) ==
    IF s # <<>> /\ s[Len(s)] \in Whitespace
    THEN RStrip(SubSeq(s, 1, Len(s) - 1))
    ELSE s

\* str.strip()
Strip(s) == RStrip(LStrip(s))

\* the test written as "p in s" instead of s.startswith(p)
RECURSIVE StartsWith_Contains(_, _)
StartsWith_Contains(s, p) ==
    /\ Len(s) >= Len(p)
    /\ \/ SubSeq(s, 1, Len(p)) = p
       \/ StartsWith_Contains(Tail(s), p)

\* str.startswith(p)
StartsWith(s, p) == Len(s) >= Len(p) /\ SubSeq(s, 1, Len(p)) = p

\* str.replace(old, new): every non-overlapping occurrence, left to right
RECURSIVE Replace(_, _, _)
Replace(s, old, new) ==
    IF s = <<>> THEN <<>>
    ELSE IF StartsWith(s, old)
         THEN new \o Replace(SubSeq(s, Len(old) + 1, Len(s)), old, new)
         ELSE <<Head(s)>> \o Replace(Tail(s), old, new)

\* index of the first line boundary of s, 0 when there is none
RECURSIVE FirstBreak(_, _)
FirstBreak(s, i) ==
    IF i > Len(s) THEN 0
    ELSE IF s[i] \in LineBreaks THEN i
    ELSE FirstBreak(s, i + 1)

\* str.splitlines(): "\r\n" is one boundary; no empty last line
RECURSIVE SplitLines(_)
SplitLines(s) ==
    IF s = <<>> THEN <<>>
    ELSE LET b == FirstBreak(s, 1)
         IN IF b = 0 THEN <<s>>
            ELSE LET e == IF s[b] = "\r" /\ b < Len(s) /\ s[b + 1] = "\n"
                          THEN b + 1 ELSE b
                 IN <<SubSeq(s, 1, b - 1)>> \o SplitLines(SubSeq(s, e + 1, Len(s)))

----------------------------------------------------------------------------
(* datetime.date *)

IsLeap(y) == (y % 4 = 0 /\ y % 100 # 0) \/ y % 400 = 0

DaysInMonth(y, m) ==
    IF m = 2 THEN (IF IsLeap(y) THEN 29 ELSE 28)
    ELSE IF m \in {4, 6, 9, 11} THEN 30 ELSE 31

\* the system clock's next calendar date
NextDay(d) ==
    IF d.day < DaysInMonth(d.year, d.month)
    THEN [d EXCEPT !.day = d.day + 1]
    ELSE IF d.month < 12
         THEN [year |-> d.year, month |-> d.month + 1, day |-> 1]
         ELSE [year |-> d.year + 1, month |-> 1, day |-> 1]

\* the date the process starts on
StartDate == [year |-> 2025, month |-> 12, day |-> 31]

Digit(n) == <<"0", "1", "2", "3", "4", "5", "6", "7", "8", "9">>[n + 1]

\* n in decimal, zero-padded to w digits
RECURSIVE Pad(_, _)
Pad(n, w) ==
    IF w = 0 THEN <<>> ELSE Pad(n \div 10, w - 1) \o <<Digit(n % 10)>>

\* n in decimal, without padding
RECURSIVE Decimal(_)
Decimal(n) ==
    IF n < 10 THEN <<Digit(n)>> ELSE Decimal(n \div 10) \o <<Digit(n % 10)>>

\* the date written as f"{d.year}-{d.month}-{d.day}"
Isoformat_NoPad(d) ==
    Decimal(d.year) \o <<"-">> \o Decimal(d.month) \o <<"-">> \o Decimal(d.day)

\* date.isoformat(): YYYY-MM-DD
Isoformat(d) ==
    Pad(d.year, 4) \o <<"-">> \o Pad(d.month, 2) \o <<"-">> \o Pad(d.day, 2)

----------------------------------------------------------------------------
(* The document: python-docx blocks in the order they were added *)

Heading(text, level) == [kind |-> "heading", text |-> text, level |-> level]

Paragraph(text) == [kind |-> "paragraph", text |-> text]

\* the chain with the heading levels put in document order (1, 2, 2, 2, 2, 2)
LabelTable_Normalised == <<
    [label   |-> <<"I","n","t","r","o","d","u","c","t","i","o","n",":">>,
     heading |-> <<"I","n","t","r","o","d","u","c","t","i","o","n">>,
     level   |-> 1],
    [label   |-> <<"B","a","c","k","g","r","o","u","n","d",":">>,
     heading |-> <<"B","a","c","k","g","r","o","u","n","d">>,
     level   |-> 2],
    [label   |-> <<"C","u","r","r","e","n","t"," ","T","r","e","n","d","s",":">>,
     heading |-> <<"C","u","r","r","e","n","t"," ","T","r","e","n","d","s">>,
     level   |-> 2],
    [label   |-> <<"K","e","y"," ","D","a","t","a","/","S","t","a","t","s",":">>,
     heading |-> <<"K","e","y"," ","D","a","t","a","/","S","t","a","t","s">>,
     level   |-> 2],
    [label   |-> <<"O","p","p","o","r","t","u","n","i","t","i","e","s","/","R","i","s","k","s",":">>,
     heading |-> <<"O","p","p","o","r","t","u","n","i","t","i","e","s","/","R","i","s","k","s">>,
     level   |-> 2],
    [label   |-> <<"C","o","n","c","l","u","s","i","o","n",":">>,
     heading |-> <<"C","o","n","c","l","u","s","i","o","n">>,
     level   |-> 2] >>

\* the chain with a first branch that tests "Background" without its colon
LabelTable_Overlap == <<
    [label   |-> <<"B","a","c","k","g","r","o","u","n","d">>,
     heading |-> <<"I","n","t","r","o","d","u","c","t","i","o","n">>,
     level   |-> 3],
    [label   |-> <<"B","a","c","k","g","r","o","u","n","d",":">>,
     heading |-> <<"B","a","c","k","g","r","o","u","n","d">>,
     level   |-> 2],
    [label   |-> <<"C","u","r","r","e","n","t"," ","T","r","e","n","d","s",":">>,
     heading |-> <<"C","u","r","r","e","n","t"," ","T","r","e","n","d","s">>,
     level   |-> 4],
    [label   |-> <<"K","e","y"," ","D","a","t","a","/","S","t","a","t","s",":">>,
     heading |-> <<"K","e","y"," ","D","a","t","a","/","S","t","a","t","s">>,
     level   |-> 1],
    [label   |-> <<"O","p","p","o","r","t","u","n","i","t","i","e","s","/","R","i","s","k","s",":">>,
     heading |-> <<"O","p","p","o","r","t","u","n","i","t","i","e","s","/","R","i","s","k","s">>,
     level   |-> 1],
    [label   |-> <<"C","o","n","c","l","u","s","i","o","n",":">>,
     heading |-> <<"C","o","n","c","l","u","s","i","o","n">>,
     level   |-> 1] >>

\* the if/elif chain of generate_report, in its order: the literal tested and
\* replaced, the heading text and the heading level
LabelTable == <<
    [label   |-> <<"I","n","t","r","o","d","u","c","t","i","o","n",":">>,
     heading |-> <<"I","n","t","r","o","d","u","c","t","i","o","n">>,
     level   |-> 3],
    [label   |-> <<"B","a","c","k","g","r","o","u","n","d",":">>,
     heading |-> <<"B","a","c","k","g","r","o","u","n","d">>,
     level   |-> 2],
    [label   |-> <<"C","u","r","r","e","n","t"," ","T","r","e","n","d","s",":">>,
     heading |-> <<"C","u","r","r","e","n","t"," ","T","r","e","n","d","s">>,
     level   |-> 4],
    [label   |-> <<"K","e","y"," ","D","a","t","a","/","S","t","a","t","s",":">>,
     heading |-> <<"K","e","y"," ","D","a","t","a","/","S","t","a","t","s">>,
     level   |-> 1],
    [label   |-> <<"O","p","p","o","r","t","u","n","i","t","i","e","s","/","R","i","s","k","s",":">>,
     heading |-> <<"O","p","p","o","r","t","u","n","i","t","i","e","s","/","R","i","s","k","s">>,
     level   |-> 1],
    [label   |-> <<"C","o","n","c","l","u","s","i","o","n",":">>,
     heading |-> <<"C","o","n","c","l","u","s","i","o","n">>,
     level   |-> 1] >>

\* the if/elif/else chain over the branches of table, in their order: the
\* blocks added for a trimmed, non-empty line
RECURSIVE Chain(_, _)
Chain(table, text) ==
    IF table = <<>> THEN <<Paragraph(text)>>
    ELSE LET b == Head(table)
         IN IF StartsWith(text, b.label)
            THEN <<Heading(b.heading, b.level),
                   Paragraph(Strip(Replace(text, b.label, <<>>)))>>
            ELSE Chain(Tail(table), text)

LineBlocks(text) == Chain(LabelTable, text)

\* the iteration without its "if not text: continue"
ProcessLine_NoSkip(line) == LineBlocks(Strip(line))

\* one iteration of the loop over report_text.splitlines()
ProcessLine(line) ==
    LET text == Strip(line)
    IN IF text = <<>> THEN <<>> ELSE LineBlocks(text)

TitleText(state) ==
    <<"R","e","s","e","a","r","c","h"," ","R","e","p","o","r","t",":"," ">> \o state

NoteText(d) ==
    <<"G","e","n","e","r","a","t","e","d"," ","w","i","t","h"," ",
      "G","e","m","i","n","i"," ","U+00B7"," ">> \o Isoformat(d)

\* Document() followed by the title heading
NewDocument(state) == <<Heading(TitleText(state), 0)>>

\* the two paragraphs added after the loop
Trailer(d) == <<Paragraph(<<>>), Paragraph(NoteText(d))>>

----------------------------------------------------------------------------
(* The page *)

indian_states == <<
    <<"A","n","d","h","r","a"," ","P","r","a","d","e","s","h">>,
    <<"A","r","u","n","a","c","h","a","l"," ","P","r","a","d","e","s","h">>,
    <<"A","s","s","a","m">>,
    <<"B","i","h","a","r">>,
    <<"C","h","h","a","t","t","i","s","g","a","r","h">>,
    <<"G","o","a">>,
    <<"G","u","j","a","r","a","t">>,
    <<"H","a","r","y","a","n","a">>,
    <<"H","i","m","a","c","h","a","l"," ","P","r","a","d","e","s","h">>,
    <<"J","h","a","r","k","h","a","n","d">>,
    <<"K","a","r","n","a","t","a","k","a">>,
    <<"K","e","r","a","l","a">>,
    <<"M","a","d","h","y","a"," ","P","r","a","d","e","s","h">>,
    <<"M","a","h","a","r","a","s","h","t","r","a">>,
    <<"M","a","n","i","p","u","r">>,
    <<"M","e","g","h","a","l","a","y","a">>,
    <<"M","i","z","o","r","a","m">>,
    <<"N","a","g","a","l","a","n","d">>,
    <<"O","d","i","s","h","a">>,
    <<"P","u","n","j","a","b">>,
    <<"R","a","j","a","s","t","h","a","n">>,
    <<"S","i","k","k","i","m">>,
    <<"T","a","m","i","l"," ","N","a","d","u">>,
    <<"T","e","l","a","n","g","a","n","a">>,
    <<"T","r","i","p","u","r","a">>,
    <<"U","t","t","a","r"," ","P","r","a","d","e","s","h">>,
    <<"U","t","t","a","r","a","k","h","a","n","d">>,
    <<"W","e","s","t"," ","B","e","n","g","a","l">>,
    <<"D","e","l","h","i">>,
    <<"J","a","m","m","u"," ","a","n","d"," ","K","a","s","h","m","i","r">>,
    <<"L","a","d","a","k","h">> >>

\* the options the model's user picks among
Choices ==
    {indian_states[n] : n \in 1..(IF NStates < Len(indian_states)
                                  THEN NStates ELSE Len(indian_states))}

ErrorNotice ==
    [kind |-> "error",
     text |-> "API limit reached or an error occurred. Please try again later."]

SuccessNotice ==
    [kind |-> "success", text |-> "Report successfully generated!"]

\* the file name without the selected state
FileName_Fixed(state) ==
    <<"r","e","p","o","r","t",".","d","o","c","x">>

FileName(state) ==
    state \o <<"_","r","e","p","o","r","t",".","d","o","c","x">>

\* the document is handed over as saved; python-docx's serialisation is
\* outside the program, so the data is the block sequence itself
DownloadButton(data, state) ==
    [kind      |-> "download_button",
     label     |-> "Download Full Report (.docx)",
     data      |-> data,
     file_name |-> FileName(state),
     mime      |-> "application/vnd.openxmlformats-officedocument.wordprocessingml.document"]

----------------------------------------------------------------------------
(* What agent.run may return *)

Fragments == {
    LabelTable[1].label, LabelTable[2].label, LabelTable[3].label,
    LabelTable[4].label, LabelTable[5].label, LabelTable[6].label,
    <<"b","a","c","k","g","r","o","u","n","d",":">>,
    <<"B","a","c","k","g","r","o","u","n","d">>,
    <<" ">>,
    <<"\n">>,
    <<"U+00A0","x"," ">>,
    <<"x","\r","\n">>,
    <<"U+2028">> }

RECURSIVE TextsOf(_)
TextsOf(n) ==
    IF n = 0 THEN {<<>>}
    ELSE LET shorter == TextsOf(n - 1)
         IN shorter \cup {t \o f : t \in shorter, f \in Fragments}

Texts == TextsOf(MaxPieces)

----------------------------------------------------------------------------
(* Actions *)

Init ==
    /\ selected_state = indian_states[1]
    /\ pc = "idle"
    /\ outcome = "none"
    /\ report_text = <<>>
    /\ lines = <<>>
    /\ doc = <<>>
    /\ page = <<>>
    /\ today = StartDate
    /\ ticks = 0
    /\ triggers = 0
    /\ agentCalls = 0

\* the calendar date changes
Tick ==
    /\ ticks < MaxTicks
    /\ ticks' = ticks + 1
    /\ today' = NextDay(today)
    /\ UNCHANGED <<selected_state, pc, outcome, report_text, lines, doc, page,
                   triggers, agentCalls>>

\* the user changes the selectbox: the script reruns with the button unpressed
Select(s) ==
    /\ pc \in {"idle", "done", "stopped"}
    /\ selected_state' = s
    /\ pc' = "idle"
    /\ outcome' = "none"
    /\ report_text' = <<>>
    /\ lines' = <<>>
    /\ doc' = <<>>
    /\ page' = <<>>
    /\ UNCHANGED <<today, ticks, triggers, agentCalls>>

\* the user presses Generate Report: the script reruns, generate_report is
\* entered and agent.run is called
Trigger ==
    /\ pc \in {"idle", "done", "stopped"}
    /\ triggers < MaxTriggers
    /\ triggers' = triggers + 1
    /\ agentCalls' = agentCalls + 1
    /\ pc' = "calling"
    /\ outcome' = "none"
    /\ report_text' = <<>>
    /\ lines' = <<>>
    /\ doc' = <<>>
    /\ page' = <<>>
    /\ UNCHANGED <<selected_state, today, ticks>>

\* the except branch without st.stop(), going on with an empty report
AgentRaises_NoStop ==
    /\ pc = "calling"
    /\ outcome' = "raised"
    /\ page' = Append(page, ErrorNotice)
    /\ report_text' = <<>>
    /\ doc' = NewDocument(selected_state)
    /\ lines' = <<>>
    /\ pc' = "formatting"
    /\ UNCHANGED <<selected_state, today, ticks, triggers, agentCalls>>

\* the except branch calling agent.run again instead of stopping
AgentRaises_Retry ==
    /\ pc = "calling"
    /\ agentCalls' = agentCalls + 1
    /\ UNCHANGED <<selected_state, pc, outcome, report_text, lines, doc, page,
                   today, ticks, triggers>>

\* agent.run raises: st.error, then st.stop ends the script run
AgentRaises ==
    /\ pc = "calling"
    /\ outcome' = "raised"
    /\ page' = Append(page, ErrorNotice)
    /\ pc' = "stopped"
    /\ UNCHANGED <<selected_state, report_text, lines, doc, today, ticks,
                   triggers, agentCalls>>

\* generate_report treating a blank answer as a failure of the agent
AgentReturns_RejectBlank(text) ==
    /\ pc = "calling"
    /\ outcome' = "returned"
    /\ report_text' = text
    /\ IF Strip(text) = <<>>
       THEN /\ page' = Append(page, ErrorNotice)
            /\ pc' = "stopped"
            /\ UNCHANGED <<doc, lines>>
       ELSE /\ doc' = NewDocument(selected_state)
            /\ lines' = SplitLines(text)
            /\ pc' = "formatting"
            /\ UNCHANGED page
    /\ UNCHANGED <<selected_state, today, ticks, triggers, agentCalls>>

\* agent.run returns text: the document is started and the loop is entered
AgentReturns(text) ==
    /\ pc = "calling"
    /\ outcome' = "returned"
    /\ report_text' = text
    /\ doc' = NewDocument(selected_state)
    /\ lines' = SplitLines(text)
    /\ pc' = "formatting"
    /\ UNCHANGED <<selected_state, page, today, ticks, triggers, agentCalls>>

\* one iteration of the loop
FormatLine ==
    /\ pc = "formatting"
    /\ lines # <<>>
    /\ doc' = doc \o ProcessLine(Head(lines))
    /\ lines' = Tail(lines)
    /\ UNCHANGED <<selected_state, pc, outcome, report_text, page, today,
                   ticks, triggers, agentCalls>>

\* the loop is over: the trailer is added, the document is saved and returned,
\* and the handler shows the success notice and the download button
Finish ==
    /\ pc = "formatting"
    /\ lines = <<>>
    /\ doc' = doc \o Trailer(today)
    /\ page' = page \o <<SuccessNotice, DownloadButton(doc', selected_state)>>
    /\ pc' = "done"
    /\ UNCHANGED <<selected_state, outcome, report_text, lines, today, ticks,
                   triggers, agentCalls>>

Next ==
    \/ Tick
    \/ \E s \in Choices : Select(s)
    \/ Trigger
    \/ AgentRaises
    \/ \E text \in Texts : AgentReturns(text)
    \/ FormatLine
    \/ Finish

Spec == Init /\ [][Next]_vars

\* The same program with shorter answers of the agent, for the properties of
\* the run as a whole: the agent call returns or raises, and the script then
\* runs to its end.
LiveAgentResponds ==
    AgentRaises \/ \E text \in TextsOf(MaxLivePieces) : AgentReturns(text)

LiveNext ==
    \/ Tick
    \/ \E s \in Choices : Select(s)
    \/ Trigger
    \/ AgentRaises
    \/ \E text \in TextsOf(MaxLivePieces) : AgentReturns(text)
    \/ FormatLine
    \/ Finish

LiveSpec ==
    /\ Init
    /\ [][LiveNext]_vars
    /\ WF_vars(LiveAgentResponds)
    /\ WF_vars(FormatLine)
    /\ WF_vars(Finish)

----------------------------------------------------------------------------
(* Vocabulary of the properties *)

\* p is a prefix of s, character by character
HasPrefix(s, p) == Len(s) >= Len(p) /\ \A i \in 1..Len(p) : s[i] = p[i]

\* the six section names and their heading levels, as the specification
\* lists them; a label is the name followed by a colon
SectionTable == <<
    [name  |-> <<"I","n","t","r","o","d","u","c","t","i","o","n">>, level |-> 3],
    [name  |-> <<"B","a","c","k","g","r","o","u","n","d">>, level |-> 2],
    [name  |-> <<"C","u","r","r","e","n","t"," ","T","r","e","n","d","s">>, level |-> 4],
    [name  |-> <<"K","e","y"," ","D","a","t","a","/","S","t","a","t","s">>, level |-> 1],
    [name  |-> <<"O","p","p","o","r","t","u","n","i","t","i","e","s","/","R","i","s","k","s">>, level |-> 1],
    [name  |-> <<"C","o","n","c","l","u","s","i","o","n">>, level |-> 1] >>

SectionLabel(j) == SectionTable[j].name \o <<":">>

\* the sections whose label the trimmed line starts with
Sections(text) == {j \in DOMAIN SectionTable : HasPrefix(text, SectionLabel(j))}

\* what follows the leading label of section j, trimmed
Remainder(text, j) ==
    Strip(SubSeq(text, Len(SectionLabel(j)) + 1, Len(text)))

\* the lines of the text that are not empty after trimming
NonBlank(text) ==
    LET ls == SplitLines(text) IN {i \in DOMAIN ls : Strip(ls[i]) # <<>>}

IsParagraph(b) == b.kind = "paragraph"

IsHeading(b) == b.kind = "heading"

Paragraphs(blocks) == {i \in DOMAIN blocks : IsParagraph(blocks[i])}

Headings(blocks) == {i \in DOMAIN blocks : IsHeading(blocks[i])}

\* a sequence of content blocks: every heading is a section heading and is
\* followed at once by its paragraph, so that the content blocks (pairs and
\* lone paragraphs) are as many as the paragraphs
ContentBlocks(blocks) ==
    \A i \in Headings(blocks) :
        /\ blocks[i].level >= 1
        /\ i < Len(blocks)
        /\ IsParagraph(blocks[i + 1])

IsTitle(b) ==
    /\ IsHeading(b)
    /\ b.level = 0
    /\ b.text = <<"R","e","s","e","a","r","c","h"," ","R","e","p","o","r","t",":"," ">>
                \o selected_state

NotePrefix ==
    <<"G","e","n","e","r","a","t","e","d"," ","w","i","t","h"," ",
      "G","e","m","i","n","i"," ","U+00B7"," ">>

IsNote(b) == IsParagraph(b) /\ HasPrefix(b.text, NotePrefix)

NoteDate(b) == SubSeq(b.text, Len(NotePrefix) + 1, Len(b.text))

DigitChars == <<"0", "1", "2", "3", "4", "5", "6", "7", "8", "9">>

IsDigit(c) == \E n \in 1..10 : DigitChars[n] = c

DigitValue(c) == (CHOOSE n \in 1..10 : DigitChars[n] = c) - 1

\* s has the form YYYY-MM-DD
IsISODate(s) ==
    /\ Len(s) = 10
    /\ s[5] = "-" /\ s[8] = "-"
    /\ \A i \in {1, 2, 3, 4, 6, 7, 9, 10} : IsDigit(s[i])

\* the date a YYYY-MM-DD string names
ParseISODate(s) ==
    [year  |-> 1000 * DigitValue(s[1]) + 100 * DigitValue(s[2])
               + 10 * DigitValue(s[3]) + DigitValue(s[4]),
     month |-> 10 * DigitValue(s[6]) + DigitValue(s[7]),
     day   |-> 10 * DigitValue(s[9]) + DigitValue(s[10])]

HasKind(k) == \E i \in DOMAIN page : page[i].kind = k

\* the loop takes its next line
LineStep == pc = "formatting" /\ lines # <<>> /\ lines' = Tail(lines)

CurText == Strip(Head(lines))

\* the blocks the step added
Added == SubSeq(doc', Len(doc) + 1, Len(doc'))

Extends == Len(doc') >= Len(doc) /\ SubSeq(doc', 1, Len(doc)) = doc

----------------------------------------------------------------------------
(* C1 *)

\* C1, as claimed: the finished document is the title heading, k content
\* blocks for the k non-blank lines, the note paragraph, and nothing else.
C1_Original ==
    pc = "done" =>
        /\ Len(doc) >= 2
        /\ IsTitle(doc[1])
        /\ IsNote(doc[Len(doc)])
        /\ LET body == SubSeq(doc, 2, Len(doc) - 1)
           IN /\ ContentBlocks(body)
              /\ Cardinality(Paragraphs(body)) = Cardinality(NonBlank(report_text))

\* C1, amended: the finished document is the title heading, k content blocks
\* for the k non-blank lines (blank lines add nothing), one empty paragraph
\* and the note paragraph, and nothing else.
C1_BlockCount ==
    pc = "done" =>
        /\ Len(doc) >= 3
        /\ IsTitle(doc[1])
        /\ doc[Len(doc) - 1] = [kind |-> "paragraph", text |-> <<>>]
        /\ IsNote(doc[Len(doc)])
        /\ LET body == SubSeq(doc, 2, Len(doc) - 2)
           IN /\ ContentBlocks(body)
              /\ Cardinality(Paragraphs(body)) = Cardinality(NonBlank(report_text))

\* a finished document of a text with a blank line and a non-blank one
C1_Witness ==
    /\ pc = "done"
    /\ Len(SplitLines(report_text)) = 2
    /\ Cardinality(NonBlank(report_text)) = 1

----------------------------------------------------------------------------
(* C2 *)

\* C2, as claimed: for a trimmed line that starts with a label, the paragraph
\* added after the heading holds the line with that leading label removed,
\* trimmed, whether or not the label occurs again later in the line.
C2_Remainder ==
    [][LineStep =>
        \A j \in Sections(CurText) :
            /\ Len(doc') = Len(doc) + 2
            /\ doc'[Len(doc')] = [kind |-> "paragraph", text |-> Remainder(CurText, j)]
      ]_vars

----------------------------------------------------------------------------
(* C3 *)

\* C3: a trimmed line that starts with a label adds a heading with the label's
\* name (no colon) at the level of the table, followed by one paragraph; a
\* non-blank line that starts with no label (other case, no colon) adds no
\* heading; leading whitespace does not prevent the match.
C3_Heading ==
    [][LineStep =>
        /\ Extends
        /\ \A j \in Sections(CurText) :
              /\ Len(Added) = 2
              /\ Added[1] = [kind  |-> "heading",
                             text  |-> SectionTable[j].name,
                             level |-> SectionTable[j].level]
              /\ IsParagraph(Added[2])
        /\ Sections(CurText) = {} => Headings(Added) = {}
      ]_vars

\* a level-2 Background heading made from a line with a space before the label
C3_Witness ==
    /\ pc = "done"
    /\ report_text = <<" ">> \o SectionLabel(2)
    /\ doc[2] = [kind |-> "heading", text |-> SectionTable[2].name, level |-> 2]

----------------------------------------------------------------------------
(* C4 *)

\* C4: once the agent call has raised, the page shows the error notice and
\* nothing else (no success notice, no download button), no document exists,
\* not even a started one, and the script run is over.
C4_ErrorOutcome ==
    outcome = "raised" =>
        /\ pc = "stopped"
        /\ page = <<ErrorNotice>>
        /\ doc = <<>>
        /\ lines = <<>>

C4_Witness == outcome = "raised" /\ pc = "stopped" /\ HasKind("error")

----------------------------------------------------------------------------
(* C5 *)

AllBlank(text) == NonBlank(text) = {}

\* C5, as claimed: an answer that is empty or whitespace only ends as an
\* exception does: the error notice, no document, no download.
C5_Original ==
    (outcome = "returned" /\ AllBlank(report_text)) =>
        /\ pc = "stopped"
        /\ page = <<ErrorNotice>>
        /\ doc = <<>>

\* C5, amended: an answer that is empty or whitespace only is not a failure:
\* no error notice is shown, and the request ends with the success notice and
\* the download of a document that holds the title heading, the empty
\* paragraph and the note.
C5_BlankAnswer ==
    (outcome = "returned" /\ AllBlank(report_text)) =>
        /\ pc \in {"formatting", "done"}
        /\ ~HasKind("error")
        /\ pc = "done" =>
              /\ Len(doc) = 3
              /\ IsTitle(doc[1])
              /\ doc[2] = [kind |-> "paragraph", text |-> <<>>]
              /\ IsNote(doc[3])
              /\ Len(page) = 2
              /\ page[1] = SuccessNotice
              /\ page[2].kind = "download_button"
              /\ page[2].data = doc

\* a whitespace-only answer whose request has ended
C5_Witness ==
    /\ outcome = "returned"
    /\ report_text = <<" ", "\n">>
    /\ pc = "done"

----------------------------------------------------------------------------
(* C6 *)

\* C6: a non-blank trimmed line that starts with no label adds exactly one
\* paragraph holding the trimmed line; a finished document of a text without
\* labels has only paragraphs as content; and the loop can always go on.
C6_PlainParagraph ==
    /\ [][(LineStep /\ CurText # <<>> /\ Sections(CurText) = {}) =>
            doc' = Append(doc, [kind |-> "paragraph", text |-> CurText])]_vars
    /\ []((pc = "done" /\ \A i \in NonBlank(report_text) :
                             Sections(Strip(SplitLines(report_text)[i])) = {})
            => Headings(SubSeq(doc, 2, Len(doc))) = {})
    /\ [](pc = "formatting" => ENABLED (FormatLine \/ Finish))

\* a finished document of the fragment around "x" followed by the lower-case
\* "background:": the no-break space in front is trimmed, the space inside kept
C6_Witness ==
    /\ pc = "done"
    /\ Len(doc) = 4
    /\ doc[2] = [kind |-> "paragraph",
                 text |-> <<"x"," ","b","a","c","k","g","r","o","u","n","d",":">>]

----------------------------------------------------------------------------
(* C7 *)

\* C7: the trailer is added in the step that ends the loop, when no line is
\* left; it is an empty paragraph followed by the note; the note's date is in
\* the form YYYY-MM-DD and names the clock's date at that step; no note is in
\* the document while lines are being processed.
C7_Trailer ==
    /\ [](pc = "done" =>
            /\ Len(doc) >= 3
            /\ doc[Len(doc) - 1] = [kind |-> "paragraph", text |-> <<>>]
            /\ IsNote(doc[Len(doc)])
            /\ IsISODate(NoteDate(doc[Len(doc)])))
    /\ [](pc = "formatting" => \A i \in DOMAIN doc : ~IsNote(doc[i]))
    /\ [][(pc = "formatting" /\ pc' = "done") =>
            /\ lines = <<>>
            /\ Extends
            /\ Len(Added) = 2
            /\ IsISODate(NoteDate(Added[2]))
            /\ ParseISODate(NoteDate(Added[2])) = today]_vars

\* an empty answer finished on the first of January
C7_Witness ==
    /\ pc = "done"
    /\ report_text = <<>>
    /\ Len(doc) = 3
    /\ NoteDate(doc[3]) = <<"2","0","2","6","-","0","1","-","0","1">>

----------------------------------------------------------------------------
(* C8 *)

\* C8: the agent has been called exactly once per press of the button,
\* whatever the calls' outcomes were.
C8_OneCallPerTrigger == agentCalls = triggers

\* a second press after a first call that failed, failing too
C8_Witness == triggers = 2 /\ agentCalls = 2 /\ outcome = "raised"

----------------------------------------------------------------------------
(* C9 *)

\* C9: a request whose agent call is in flight ends, and it ends either with
\* the success notice followed by the download button, or with the error
\* notice, never both and never neither; the download is offered only when
\* the agent returned and the loop and trailer are over, and its file is named
\* after the selected state.
C9_Resolves ==
    /\ (pc = "calling") ~> (pc \in {"done", "stopped"})
    /\ [](pc \in {"done", "stopped"} => (HasKind("download_button") # HasKind("error")))
    /\ [](HasKind("download_button") =>
            /\ pc = "done"
            /\ outcome = "returned"
            /\ lines = <<>>
            /\ Len(page) = 2
            /\ page[1] = SuccessNotice
            /\ page[2].kind = "download_button"
            /\ page[2].data = doc
            /\ page[2].file_name =
                  selected_state \o <<"_","r","e","p","o","r","t",".","d","o","c","x">>)

\* a download offered for the second state of the list
C9_Witness ==
    /\ pc = "done"
    /\ selected_state = indian_states[2]
    /\ HasKind("download_button")

----------------------------------------------------------------------------
(* C10 *)

\* the chain with branch j tested first
MoveToFront(table, j) ==
    <<table[j]>> \o SubSeq(table, 1, j - 1) \o SubSeq(table, j + 1, Len(table))

Reversed(table) == [i \in DOMAIN table |-> table[Len(table) + 1 - i]]

\* what any ordering of the chain does is what the ordering with its first
\* matching branch moved to the front does
Orderings ==
    {MoveToFront(LabelTable, j) : j \in DOMAIN LabelTable} \cup {Reversed(LabelTable)}

\* C10: no label of the chain is a prefix of another; no trimmed line of the
\* agent's answer passes the test of more than one branch; and the blocks of
\* a line are the same under the other orderings of the chain.
C10_NoOverlap ==
    /\ \A j, k \in DOMAIN LabelTable :
          j # k => ~HasPrefix(LabelTable[j].label, LabelTable[k].label)
    /\ \A i \in NonBlank(report_text) :
          LET text == Strip(SplitLines(report_text)[i])
          IN /\ Cardinality({j \in DOMAIN LabelTable :
                                HasPrefix(text, LabelTable[j].label)}) <= 1
             /\ \A table \in Orderings : Chain(table, text) = LineBlocks(text)

\* a finished line that starts with one label and holds another one later
C10_Witness ==
    /\ pc = "done"
    /\ report_text = LabelTable[2].label \o LabelTable[6].label
    /\ Len(doc) = 5

====
